---- MODULE Spec2Model ----
(***************************************************************************)
(* SmartClause analyzer: hybrid retrieval (BM25 + vector search + RRF).    *)
(*                                                                         *)
(* The model follows app/services/retrieval_service.py.  A corpus of rule  *)
(* chunks is fixed by Init; every request to /retrieve-chunk or            *)
(* /retrieve-rules is one action that runs the whole handler: load the     *)
(* eligible chunks, rank them by BM25, run the vector search, map the      *)
(* vector results back to row indices, fuse, and assemble the response.    *)
(*                                                                         *)
(* Two things the code leaves to the store are nondeterministic here: the  *)
(* order of the rows of a query without ORDER BY, and the order of rows    *)
(* with equal sort keys in the vector query.                               *)
(*                                                                         *)
(* Scores are kept exact, as fractions [num, den]; the code computes them  *)
(* in double precision, which orders and equates them the same way for     *)
(* lists of the sizes modelled.                                            *)
(***************************************************************************)
EXTENDS Integers, Sequences, FiniteSets, TLC

VARIABLES
    chunks,          \* the rule_chunks table: chunk_id -> row
    rules,           \* the rule_ids present in the rules table
    phase,           \* "idle" before a request, "done" after a response
    endpoint,        \* "none", "chunks" (/retrieve-chunk), "rules" (/retrieve-rules)
    query,           \* the query string of the request ("none" while idle)
    request,         \* the RetrieveRequest without its query: [k, distance_function]
    rows,            \* chunk ids in the order db.query(...).all() returned them
    bm25_ranked,     \* row indices (0-based), best BM25 score first
    encoder,         \* "idle", "ok", or "raised": the query encoder in this request
    vector_k,        \* the k of the request given to retrieve_documents
    metric,          \* the distance function retrieve_documents ordered by
    vector_results,  \* chunk ids of vector_response.results, in order
    vector_ranked,   \* row indices the vector results were resolved to
    rrf_scores,      \* row index -> fused score, a fraction [num, den]
    results,         \* RetrieveResponse.results
    total_results,   \* RetrieveResponse.total_results
    status           \* HTTP status of the response (0 while idle); for a direct
                     \* call of the service 200 is a returned response and 500
                     \* an exception raised to the caller

(* The chat service (src/chat) *)
VARIABLES
    chat_sessions,   \* the chat_sessions table: space id -> [user_id, memory_length]
    chat_messages,   \* the chat_messages table, in commit order
    chat_reply       \* the last chat request with its response

retrievalVars == <<chunks, rules, phase, endpoint, query, request, rows, bm25_ranked,
                   encoder, vector_k, metric, vector_results, vector_ranked, rrf_scores,
                   results, total_results, status>>

(* RetryMixin.retry_async (src/analyzer/app/services/retry_utils.py) *)
VARIABLES
    retry            \* one call of retry_async: its arguments, loop position, outcome

(* The analysis pipeline (src/analyzer/app/services/analyzer_service.py) *)
VARIABLES
    limits,          \* settings.max_concurrent_*: permits of each semaphore
    sem,             \* permits each semaphore of the ConcurrencyManager has free
    stage,           \* "off", "embedding", "analysis" or "finished"
    embeddings,      \* point -> result of its embedding task
    points,          \* point -> position and data of its task
    analyzed_points  \* the list _analyze_points_concurrently returns

(* Routines of the analyzer service called on their own *)
VARIABLES
    validation,      \* one call of _validate_analysis_with_llm
    sorting          \* one call of _sort_analysis_points_by_risk

(* The memory service of the chat (src/chat/app/services/memory_service.py) *)
VARIABLES
    writers,         \* concurrent requests inside save_message
    unique_seq,      \* whether the store has the unique constraint of init_db.py
    context,         \* the last result of get_conversation_context
    history          \* the messages _format_conversation_history put in the prompt

chatVars == <<chat_sessions, chat_messages, chat_reply>>

retryVars == <<retry>>

pipelineVars == <<limits, sem, stage, embeddings, points, analyzed_points>>

analysisVars == <<validation, sorting>>

memoryVars == <<writers, unique_seq, context, history>>

(* The variables of the components other than hybrid retrieval *)
restVars == <<chatVars, retryVars, pipelineVars, analysisVars, memoryVars>>

vars == <<retrievalVars, restVars>>

corpusVars == <<chunks, rules>>

callVars == <<endpoint, query, request, rows, bm25_ranked, encoder, vector_k, metric,
              vector_results, vector_ranked, rrf_scores, results, total_results, status>>

----------------------------------------------------------------------------
(* Bounds of the model *)

MaxChunks == 3

(* Program constants *)

RRF_C == 60
VectorKFloor == 30
VectorKCap == 20
MaxK == 20
PipelineK == 5
SettingsMaxRetries == 3

MaxMessages == 2
MaxRetriesArg == 2
NumPoints == 2
MaxPermits == 2
MaxAnalysisPoints == 3
NumWriters == 2
MaxStored == 12

(* Program constants of the chat service *)

MaxMemoryMessages == 20
DefaultMemoryMessages == 10
SchemaMinMemory == 1
SchemaMaxMemory == 50
MinLimit == 1
HistoryWindow == 10
MaxLimit == 100

----------------------------------------------------------------------------
(* Small helpers *)

Min2(a, b) == IF a <= b THEN a ELSE b

Max2(a, b) == IF a >= b THEN a ELSE b

Range(s) == {s[i] : i \in DOMAIN s}

Take(s, n) == SubSeq(s, 1, Min2(n, Len(s)))

Permutations1(S) ==
    {s \in [1..Cardinality(S) -> S] : \A i, j \in DOMAIN s : i # j => s[i] # s[j]}

(* Python's sorted(seq, key=..., reverse=True): descending, and stable, so *)
(* items with equal keys keep their order in seq.  Gt(a, b) compares keys. *)
SortedReverse(seq, Gt(_, _)) ==
    LET n == Len(seq)
        before(i, j) == Gt(seq[i], seq[j]) \/ (~Gt(seq[j], seq[i]) /\ i < j)
        pos(j) == Cardinality({i \in 1..n : i # j /\ before(i, j)}) + 1
    IN  [p \in 1..n |-> seq[CHOOSE j \in 1..n : pos(j) = p]]

(* list.index(x), 0-based; -1 stands for the ValueError of a missing item *)
IndexOf(list, x) ==
    IF x \in Range(list)
    THEN (CHOOSE p \in DOMAIN list : list[p] = x /\ \A q \in 1..(p-1) : list[q] # x) - 1
    ELSE -1

----------------------------------------------------------------------------
(* The corpus *)

RuleIds == {1, 2, 3}

Strides == {1, 3}

Bm25Scores == {0, 1}

NULL == <<>>

(* The embedding stored for chunk id, when it has one.  Against the query  *)
(* embedding the cosine similarity falls as the id grows and so does the   *)
(* L2 distance, so the two metrics order the corpus in opposite            *)
(* directions.  Chunks 0 and 1 hold the same text and so the same vector.  *)
EmbeddingOf(id) == IF id = 0 THEN <<8, 1>> ELSE <<10 - 2 * id, id>>

(* embedding_service.encode_to_list(request.query): the encoder is a       *)
(* deterministic function of the query, and the model has one query.       *)
QueryEmbedding == <<1, 0>>

KValues == {1, 2}

DistanceFunction == {"cosine", "l2"}

(* The rules of a corpus of n chunks as create_chunks_dataset.py lays them *)
(* out: chunk ids count up from 0 through the rules in order.              *)
RuleLayouts(n) ==
    {f \in [0..(n - 1) -> RuleIds] :
        /\ n > 0 => f[0] = 1
        /\ \A id \in 1..(n - 1) : f[id] \in {f[id - 1], f[id - 1] + 1}}

(* chunk_number counts the chunks of a rule from 0 *)
ChunkNumber(f, id) == Cardinality({j \in 0..(id - 1) : f[j] = f[id]})

(* The rule_chunks table.  The first chunk of a rule starts at character 0 *)
(* and chunk c of a rule at c strides.  bm25_score stands for the score    *)
(* BM25.get_scores gives chunk_text for the query; the score of a row      *)
(* without an embedding is never read and is kept 0.                       *)
Corpus(n, f, stride, bm25, embedded) ==
    [id \in 0..(n - 1) |->
        [rule_id |-> f[id],
         chunk_number |-> ChunkNumber(f, id),
         chunk_char_start |-> ChunkNumber(f, id) * stride,
         bm25_score |-> bm25[id],
         embedding |-> IF id \in embedded THEN EmbeddingOf(id) ELSE NULL]]

(* db.query(RuleChunk).join(Rule).filter(RuleChunk.embedding != None), and *)
(* FROM rule_chunks rc JOIN rules r ... WHERE rc.embedding IS NOT NULL     *)
EligibleIds ==
    {id \in DOMAIN chunks :
        chunks[id].embedding # NULL /\ chunks[id].rule_id \in rules}

(* .all() on a query without ORDER BY: any order of the eligible rows *)
RowOrders == Permutations1(EligibleIds)

----------------------------------------------------------------------------
(* Vector search: retrieve_documents *)

Dot(a, b) == a[1] * b[1] + a[2] * b[2]

L2Squared(a, b) == (a[1] - b[1]) * (a[1] - b[1]) + (a[2] - b[2]) * (a[2] - b[2])

(* Mutant of SortsBefore: ORDER BY similarity_score DESC for every metric *)
SortsBeforeAlwaysDesc(distance_function, a, b) ==
    LET q == QueryEmbedding
    IN  CASE distance_function = "l2" -> L2Squared(a, q) > L2Squared(b, q)
          [] distance_function = "cosine" ->
                Dot(a, q) * Dot(a, q) * Dot(b, b) > Dot(b, q) * Dot(b, q) * Dot(a, a)
          [] OTHER -> Dot(a, q) > Dot(b, q)

(* _build_distance_query with the ORDER BY direction of retrieve_documents: *)
(* TRUE when embedding a sorts strictly before embedding b.  Cosine         *)
(* similarity is compared by its square times the norms (all components of  *)
(* the modelled embeddings are non-negative).                               *)
SortsBefore(distance_function, a, b) ==
    LET q == QueryEmbedding
    IN  CASE distance_function = "l2" -> L2Squared(a, q) < L2Squared(b, q)
          [] distance_function = "cosine" ->
                Dot(a, q) * Dot(a, q) * Dot(b, b) > Dot(b, q) * Dot(b, q) * Dot(a, a)
          [] OTHER -> Dot(a, q) > Dot(b, q)

(* The possible results of the similarity query: the eligible rows in an   *)
(* order the ORDER BY allows, cut by LIMIT :k.                             *)
RetrieveDocuments(k, distance_function) ==
    {Take(s, k) : s \in
        {o \in Permutations1(EligibleIds) :
            \A i, j \in DOMAIN o :
                i < j => ~SortsBefore(distance_function,
                                      chunks[o[j]].embedding, chunks[o[i]].embedding)}}

----------------------------------------------------------------------------
(* Hybrid retrieval: retrieve_chunks_rrf / retrieve_rules_rrf *)

(* sorted(range(len(bm25_scores)), key=lambda i: bm25_scores[i], reverse=True) *)
Bm25Ranked(rws) ==
    SortedReverse([i \in 1..Len(rws) |-> i - 1],
                  LAMBDA a, b : chunks[rws[a + 1]].bm25_score > chunks[rws[b + 1]].bm25_score)

(* vector_k = min(max(request.k, 30), 20) *)
VectorK(k) == Min2(Max2(k, VectorKFloor), VectorKCap)

(* chunk_id_to_idx.get(result.metadata.start_char) for every vector result, *)
(* keeping the indices that are not None                                    *)
VectorRanked(rws, vres) ==
    LET starts == [p \in DOMAIN vres |-> chunks[vres[p]].chunk_char_start]
        found == SelectSeq(starts, LAMBDA s : s \in Range(rws))
    IN  [p \in DOMAIN found |-> IndexOf(rws, found[p])]

(* def rrf(idx, ranked_list) *)
Rrf(idx, ranked_list) ==
    IF idx \in Range(ranked_list) THEN IndexOf(ranked_list, idx) ELSE Len(ranked_list)

(* 1/(c + rv) + 1/(c + rf) as a fraction *)
Fraction(n, d) == [num |-> n, den |-> d]

FracGt(a, b) == a.num * b.den > b.num * a.den

FracEq(a, b) == a.num * b.den = b.num * a.den

RrfScore(rv, rf) == Fraction((RRF_C + rv) + (RRF_C + rf), (RRF_C + rv) * (RRF_C + rf))

RrfScores(n, vranked, branked) ==
    [i \in 0..(n - 1) |-> RrfScore(Rrf(i, vranked), Rrf(i, branked))]

(* Mutant of TopRrf: reverse=True forgotten, so the sort is ascending *)
TopRrfAscending(scores, k) ==
    LET n == Cardinality(DOMAIN scores)
    IN  Take(SortedReverse([i \in 1..n |-> i - 1],
                           LAMBDA a, b : FracGt(scores[b], scores[a])),
             k * 2)

(* sorted(rrf_scores, key=rrf_scores.get, reverse=True)[:request.k*2] *)
TopRrf(scores, k) ==
    LET n == Cardinality(DOMAIN scores)
    IN  Take(SortedReverse([i \in 1..n |-> i - 1],
                           LAMBDA a, b : FracGt(scores[a], scores[b])),
             k * 2)

ResultOf(idx, rws, scores) ==
    [chunk_id |-> rws[idx + 1],
     rule_id |-> chunks[rws[idx + 1]].rule_id,
     similarity_score |-> scores[idx]]

(* Mutant of ChunkLoop: the loop breaks on len(results) > request.k *)
RECURSIVE ChunkLoopOffByOne(_, _, _, _, _, _)
ChunkLoopOffByOne(top, seen, acc, k, rws, scores) ==
    IF top = <<>> THEN acc
    ELSE LET idx == Head(top)
             chunk_id == rws[idx + 1]
         IN  IF chunk_id \in seen
             THEN ChunkLoopOffByOne(Tail(top), seen, acc, k, rws, scores)
             ELSE LET acc2 == Append(acc, ResultOf(idx, rws, scores))
                  IN  IF Len(acc2) > k THEN acc2
                      ELSE ChunkLoopOffByOne(Tail(top), seen \cup {chunk_id}, acc2, k, rws, scores)

(* The result loop of retrieve_chunks_rrf: skip seen chunk ids, stop at k *)
RECURSIVE ChunkLoop(_, _, _, _, _, _)
ChunkLoop(top, seen, acc, k, rws, scores) ==
    IF top = <<>> THEN acc
    ELSE LET idx == Head(top)
             chunk_id == rws[idx + 1]
         IN  IF chunk_id \in seen
             THEN ChunkLoop(Tail(top), seen, acc, k, rws, scores)
             ELSE LET acc2 == Append(acc, ResultOf(idx, rws, scores))
                  IN  IF Len(acc2) >= k THEN acc2
                      ELSE ChunkLoop(Tail(top), seen \cup {chunk_id}, acc2, k, rws, scores)

(* Mutant of RuleLoop: the seen_rule_ids test is missing *)
RECURSIVE RuleLoopNoSeen(_, _, _, _, _, _)
RuleLoopNoSeen(top, seen, acc, k, rws, scores) ==
    IF top = <<>> THEN acc
    ELSE LET acc2 == Append(acc, ResultOf(Head(top), rws, scores))
         IN  IF Len(acc2) >= k THEN acc2
             ELSE RuleLoopNoSeen(Tail(top), seen, acc2, k, rws, scores)

(* The result loop of retrieve_rules_rrf: skip seen rule ids, stop at k *)
RECURSIVE RuleLoop(_, _, _, _, _, _)
RuleLoop(top, seen, acc, k, rws, scores) ==
    IF top = <<>> THEN acc
    ELSE LET idx == Head(top)
             rule_id == chunks[rws[idx + 1]].rule_id
         IN  IF rule_id \in seen
             THEN RuleLoop(Tail(top), seen, acc, k, rws, scores)
             ELSE LET acc2 == Append(acc, ResultOf(idx, rws, scores))
                  IN  IF Len(acc2) >= k THEN acc2
                      ELSE RuleLoop(Tail(top), seen \cup {rule_id}, acc2, k, rws, scores)

----------------------------------------------------------------------------
(* The chat service at rest: no session, no message, no request yet *)

SpaceIds == {"s1"}

NoSession == [user_id |-> "none", memory_length |-> 0]

NoReply ==
    [route |-> "none", space_id |-> "none", authorization |-> "none", content |-> "none",
     limit |-> 0, offset |-> 0, memory_length |-> 0, status |-> 0, body |-> <<>>,
     read |-> FALSE, wrote |-> FALSE]

ChatInit ==
    /\ chat_sessions = [sp \in SpaceIds |-> NoSession]
    /\ chat_messages = <<>>
    /\ chat_reply = NoReply

(* None, as the value of the max_retries argument *)
None == -1

RetryIdle ==
    [pc |-> "idle", arg |-> None, timeout |-> FALSE, max_retries |-> 0, attempt |-> 0,
     outcomes |-> <<>>, last_exception |-> "none", result |-> "none"]

RetryOff == retry = RetryIdle

PipelineOff ==
    /\ limits = [global |-> 1, llm |-> 1, embedding |-> 1]
    /\ sem = limits
    /\ stage = "off"
    /\ embeddings = <<>>
    /\ points = <<>>
    /\ analyzed_points = <<>>

ValidationIdle == [pc |-> "idle", input |-> <<>>, outcomes |-> <<>>, validated |-> <<>>]

SortingIdle == [pc |-> "idle", input |-> <<>>, output |-> <<>>]

AnalysisOff ==
    /\ validation = ValidationIdle
    /\ sorting = SortingIdle

(* No call of get_conversation_context yet *)
NoContext == [limit |-> 0, available |-> {}, messages |-> <<>>]

MemoryOff ==
    /\ writers = <<>>
    /\ unique_seq = FALSE
    /\ context = NoContext
    /\ history = <<>>

(* The components other than hybrid retrieval, unused *)
RestOff == ChatInit /\ RetryOff /\ PipelineOff /\ AnalysisOff /\ MemoryOff

----------------------------------------------------------------------------
(* State machine *)

(* The query strings a client sends, and v.strip() of each *)
Queries == {"", " ", " text "}

Strip(v) == IF v = " text " THEN "text" ELSE ""

(* The k and distance_function values a client sends *)
RequestKs == KValues \cup {0, MaxK + 1}

RequestDistanceFunctions == DistanceFunction \cup {"manhattan"}

(* valid_functions of validate_distance_function *)
ValidFunctions == {"cosine", "l2", "inner_product"}

(* Mutant of ValidRequest: validate_query is missing *)
ValidRequestNoStrip(q, k, df) ==
    /\ Len(q) >= 1
    /\ k >= 1 /\ k <= MaxK
    /\ df \in ValidFunctions

(* RetrieveRequest: query has min_length 1 and must not strip to nothing,  *)
(* k has ge = 1 and le = 20, distance_function must be a valid function.   *)
ValidRequest(q, k, df) ==
    /\ Len(q) >= 1
    /\ Strip(q) # ""
    /\ k >= 1 /\ k <= MaxK
    /\ df \in ValidFunctions

(* RetrievalService.__init__: default_distance_function; nothing calls      *)
(* set_distance_function.                                                  *)
DefaultDistanceFunction == "cosine"

(* The distance_function argument retrieve_documents receives.  The routes *)
(* pass DistanceFunction(request_data.distance_function); the analysis     *)
(* pipeline calls retrieve_rules_rrf(retrieve_request, db) without one, so *)
(* retrieve_documents falls back to the default of the service.            *)
MetricOf(ep, df) == IF ep = "pipeline" THEN DefaultDistanceFunction ELSE df

NoRequest == [k |-> 0, distance_function |-> "none"]

IdleCall ==
    /\ endpoint = "none"
    /\ query = "none"
    /\ request = NoRequest
    /\ rows = <<>>
    /\ bm25_ranked = <<>>
    /\ encoder = "idle"
    /\ vector_k = 0
    /\ metric = "none"
    /\ vector_results = <<>>
    /\ vector_ranked = <<>>
    /\ rrf_scores = <<>>
    /\ results = <<>>
    /\ total_results = 0
    /\ status = 0

Init ==
    /\ \E n \in 0..MaxChunks, stride \in Strides :
        \E f \in RuleLayouts(n), bm25 \in [0..(n - 1) -> Bm25Scores],
           embedded \in SUBSET (0..(n - 1)) :
            /\ \A id \in 0..(n - 1) : id \notin embedded => bm25[id] = 0
            /\ chunks = Corpus(n, f, stride, bm25, embedded)
    /\ rules = RuleIds
    /\ phase = "idle"
    /\ IdleCall
    /\ RestOff

(* The handler raised: the route answers with an error status and no      *)
(* RetrieveResponse is built.                                               *)
Fail(ep, k, df, enc, code) ==
    /\ endpoint' = ep
    /\ request' = [k |-> k, distance_function |-> df]
    /\ rows' = <<>>
    /\ bm25_ranked' = <<>>
    /\ encoder' = enc
    /\ vector_k' = IF enc = "idle" THEN 0 ELSE VectorK(k)
    /\ metric' = IF enc = "idle" THEN "none" ELSE MetricOf(ep, df)
    /\ vector_results' = <<>>
    /\ vector_ranked' = <<>>
    /\ rrf_scores' = <<>>
    /\ results' = <<>>
    /\ total_results' = 0
    /\ status' = code

(* The handler returned a RetrieveResponse built from the rows rws and the *)
(* vector results vres.                                                    *)
Respond(ep, k, df, enc, rws, vres) ==
    LET branked == Bm25Ranked(rws)
        vranked == VectorRanked(rws, vres)
        scores == RrfScores(Len(rws), vranked, branked)
        top == TopRrf(scores, k)
        res == IF ep = "chunks"
               THEN ChunkLoop(top, {}, <<>>, k, rws, scores)
               ELSE RuleLoop(top, {}, <<>>, k, rws, scores)
    IN  /\ endpoint' = ep
        /\ request' = [k |-> k, distance_function |-> df]
        /\ rows' = rws
        /\ bm25_ranked' = branked
        /\ encoder' = enc
        /\ vector_k' = VectorK(k)
        /\ metric' = MetricOf(ep, df)
        /\ vector_results' = vres
        /\ vector_ranked' = vranked
        /\ rrf_scores' = scores
        /\ results' = res
        /\ total_results' = Len(res)
        /\ status' = 200

(* Mutant of OnEncoderError: the error is swallowed and the ranking is     *)
(* built from the BM25 list alone.                                         *)
OnEncoderErrorLexicalOnly(ep, k, df) ==
    \E rws \in RowOrders : Respond(ep, k, df, "raised", rws, <<>>)

(* embedding_service.encode raised inside retrieve_documents, which logs   *)
(* and re-raises; the hybrid method has no handler, the route answers 500. *)
OnEncoderError(ep, k, df) == Fail(ep, k, df, "raised", 500)

(* Mutant of Call: a corpus without eligible chunks is answered 404 *)
CallEmptyCorpusNotFound(ep, k, df) ==
    IF k > MaxK
    THEN Fail(ep, k, df, "idle", 400)
    ELSE \/ OnEncoderError(ep, k, df)
         \/ /\ EligibleIds = {}
            /\ Fail(ep, k, df, "ok", 404)
         \/ /\ EligibleIds # {}
            /\ \E vres \in RetrieveDocuments(VectorK(k), MetricOf(ep, df)), rws \in RowOrders :
                    Respond(ep, k, df, "ok", rws, vres)

(* The service call of one request.  The route checks k against max_k,     *)
(* and passes DistanceFunction(request.distance_function) on.              *)
Call(ep, k, df) ==
    IF k > MaxK
    THEN Fail(ep, k, df, "idle", 400)
    ELSE \/ OnEncoderError(ep, k, df)
         \/ \E vres \in RetrieveDocuments(VectorK(k), MetricOf(ep, df)), rws \in RowOrders :
                Respond(ep, k, df, "ok", rws, vres)

(* The request body does not validate as a RetrieveRequest: the framework  *)
(* answers 422 and the route function is not entered.                      *)
Reject(ep, q, k, df) ==
    /\ query' = q
    /\ Fail(ep, k, df, "idle", 422)

(* One request to a retrieval route: validation, then the route function *)
Handle(ep, q, k, df) ==
    /\ phase = "idle"
    /\ phase' = "done"
    /\ UNCHANGED <<corpusVars, restVars>>
    /\ IF ValidRequest(q, k, df)
       THEN query' = Strip(q) /\ Call(ep, k, df)
       ELSE Reject(ep, q, k, df)

(* POST /retrieve-chunk *)
RetrieveChunks ==
    \E q \in Queries, k \in RequestKs, df \in RequestDistanceFunctions :
        Handle("chunks", q, k, df)

(* POST /retrieve-rules *)
RetrieveRules ==
    \E q \in Queries, k \in RequestKs, df \in RequestDistanceFunctions :
        Handle("rules", q, k, df)

(* AnalyzerService._get_context_from_retrieval_service: the pipeline builds *)
(* RetrieveRequest(query, k = 5, distance_function = "l2") and calls        *)
(* retrieve_rules_rrf(retrieve_request, db) twice; the response of the first *)
(* call is overwritten by the second.  An exception of either call leaves    *)
(* no response (it is caught by the caller, which falls back).               *)
PointContent == "text"

GetContextFromRetrievalService ==
    /\ phase = "idle"
    /\ phase' = "done"
    /\ UNCHANGED <<corpusVars, restVars>>
    /\ query' = PointContent
    /\ \/ OnEncoderError("pipeline", PipelineK, "l2")
       \/ /\ \E vres \in RetrieveDocuments(VectorK(PipelineK), MetricOf("pipeline", "l2")) :
                \E rws \in RowOrders : TRUE
          /\ \E vres \in RetrieveDocuments(VectorK(PipelineK), MetricOf("pipeline", "l2")) :
                \E rws \in RowOrders : Respond("pipeline", PipelineK, "l2", "ok", rws, vres)

(* The response has been sent; the next request starts from scratch *)
Return ==
    /\ phase = "done"
    /\ phase' = "idle"
    /\ endpoint' = "none"
    /\ query' = "none"
    /\ request' = NoRequest
    /\ rows' = <<>>
    /\ bm25_ranked' = <<>>
    /\ encoder' = "idle"
    /\ vector_k' = 0
    /\ metric' = "none"
    /\ vector_results' = <<>>
    /\ vector_ranked' = <<>>
    /\ rrf_scores' = <<>>
    /\ results' = <<>>
    /\ total_results' = 0
    /\ status' = 0
    /\ UNCHANGED <<corpusVars, restVars>>

Next == RetrieveChunks \/ RetrieveRules \/ GetContextFromRetrievalService \/ Return

Spec == Init /\ [][Next]_vars

(* A store whose rule_chunks table holds an embedded chunk of a rule that   *)
(* the rules table does not hold: the state of a store filled without the  *)
(* foreign key of rule_chunks.rule_id being enforced.                      *)
InitDangling ==
    /\ \E n \in 1..MaxChunks, stride \in Strides :
        \E f \in RuleLayouts(n), bm25 \in [0..(n - 1) -> Bm25Scores],
           embedded \in SUBSET (0..(n - 1)) :
            /\ \A id \in 0..(n - 1) : id \notin embedded => bm25[id] = 0
            /\ chunks = Corpus(n, f, stride, bm25, embedded)
    /\ \E r \in RuleIds :
        /\ rules = RuleIds \ {r}
        /\ \E id \in DOMAIN chunks : chunks[id].embedding # NULL /\ chunks[id].rule_id = r
    /\ phase = "idle"
    /\ IdleCall
    /\ RestOff

SpecDangling == InitDangling /\ [][Next]_vars

(* The client sends the request it has just been answered once more, to    *)
(* the unchanged corpus.                                                   *)
Repeat ==
    /\ phase = "done"
    /\ phase' = "done"
    /\ UNCHANGED <<corpusVars, restVars>>
    /\ status = 200
    /\ query' = query
    /\ Call(endpoint, request.k, request.distance_function)

NextRepeat == Next \/ Repeat

SpecRepeat == Init /\ [][NextRepeat]_vars

----------------------------------------------------------------------------
(* The chat service: routes of src/chat/app/api/routes.py, one request at  *)
(* a time, with the memory service calls each of them makes.               *)

(* Hybrid retrieval unused: an empty store and no request *)
RetrievalOff ==
    /\ chunks = <<>>
    /\ rules = RuleIds
    /\ phase = "idle"
    /\ IdleCall

(* Path values for {space_id}; uuid.UUID(space_id) parses the space ids *)
SpacePaths == SpaceIds \cup {"invalid-uuid"}

IsUuid(space_id) == space_id \in SpaceIds

(* Authorization headers: none, or the token of one of two users.  The     *)
(* backend that validates the token is taken to be reachable.              *)
AuthHeaders == {"none", "Bearer u1", "Bearer u2"}

(* extract_user_id_from_header: the user id, or "none" for the 401 cases *)
ExtractUserId(authorization) ==
    CASE authorization = "Bearer u1" -> "u1"
      [] authorization = "Bearer u2" -> "u2"
      [] OTHER -> "none"

Limits == {MinLimit - 1, MinLimit, MaxLimit, MaxLimit + 1}

Offsets == {-1, 0}

MemoryLengths ==
    {SchemaMinMemory - 1, SchemaMinMemory, MaxMemoryMessages, MaxMemoryMessages + 1,
     SchemaMaxMemory, SchemaMaxMemory + 1}

Contents == {" ", "hi"}

(* ChatMemoryConfigRequest: ge = 1, le = 50 and validate_memory_length *)
ValidMemoryConfig(memory_length) ==
    memory_length >= SchemaMinMemory /\ memory_length <= SchemaMaxMemory

(* SendMessageRequest: min_length = 1 and validate_content *)
ValidContent(content) == content \notin {"", " "}

(* The non-deleted messages of (space_id, user_id); nothing deletes one *)
MessagesOf(space_id, user_id) ==
    SelectSeq(chat_messages, LAMBDA m : m.space_id = space_id /\ m.user_id = user_id)

(* coalesce(max(sequence_number), 0) + 1 over the messages of the pair *)
NextSequenceNumber(msgs, space_id, user_id) ==
    LET own == {msgs[i].sequence_number : i \in
                    {j \in DOMAIN msgs : msgs[j].space_id = space_id /\ msgs[j].user_id = user_id}}
    IN  IF own = {} THEN 1 ELSE (CHOOSE x \in own : \A y \in own : y <= x) + 1

(* save_message *)
SaveMessage(msgs, space_id, user_id, type) ==
    Append(msgs, [space_id |-> space_id, user_id |-> user_id, type |-> type,
                  sequence_number |-> NextSequenceNumber(msgs, space_id, user_id)])

(* get_or_create_session finds the active session of (space_id, user_id)   *)
(* or inserts one; chat_sessions.space_id is unique, so the insert fails   *)
(* when the space has the session of another user.                         *)
GetOrCreateSucceeds(space_id, user_id) ==
    chat_sessions[space_id] = NoSession \/ chat_sessions[space_id].user_id = user_id

SessionsAfterGetOrCreate(space_id, user_id) ==
    IF chat_sessions[space_id] = NoSession
    THEN [chat_sessions EXCEPT ![space_id] =
            [user_id |-> user_id, memory_length |-> DefaultMemoryMessages]]
    ELSE chat_sessions

(* order_by(desc(sequence_number)).offset(offset).limit(limit), as the     *)
(* sequence numbers of the rows                                            *)
Page(space_id, user_id, limit, offset) ==
    LET own == MessagesOf(space_id, user_id)
        newest == SortedReverse(own, LAMBDA a, b : a.sequence_number > b.sequence_number)
        rest == SubSeq(newest, offset + 1, Len(newest))
    IN  [p \in DOMAIN Take(rest, limit) |-> rest[p].sequence_number]

ChatReply(route, space_id, authorization, content, limit, offset, memory_length, status_code, body, read, wrote) ==
    chat_reply' =
        [route |-> route, space_id |-> space_id, authorization |-> authorization,
         content |-> content, limit |-> limit, offset |-> offset,
         memory_length |-> memory_length, status |-> status_code, body |-> body,
         read |-> read, wrote |-> wrote]

(* GET /spaces/{space_id}/messages *)
GetMessages ==
    \E sp \in SpacePaths, auth \in AuthHeaders, limit \in Limits, offset \in Offsets :
        LET user_id == ExtractUserId(auth)
            status_code ==
                IF ~IsUuid(sp) THEN 400
                ELSE IF user_id = "none" THEN 401
                ELSE IF limit < MinLimit \/ limit > MaxLimit THEN 400
                ELSE IF offset < 0 THEN 400
                ELSE 200
        IN  /\ ChatReply("get_messages", sp, auth, "none", limit, offset, 0, status_code,
                         IF status_code = 200 THEN Page(sp, user_id, limit, offset) ELSE <<>>,
                         status_code = 200, FALSE)
            /\ UNCHANGED <<chat_sessions, chat_messages, retrievalVars, retryVars, pipelineVars, analysisVars, memoryVars>>

(* POST /spaces/{space_id}/messages: the user message is saved and        *)
(* committed, the conversation context is read (which gets or creates the  *)
(* session), the response is generated (generate_response falls back       *)
(* instead of raising) and saved.                                          *)
SendMessage ==
    \E sp \in SpacePaths, auth \in AuthHeaders, content \in Contents :
        LET user_id == ExtractUserId(auth)
            saved == SaveMessage(chat_messages, sp, user_id, "user")
            answered == SaveMessage(saved, sp, user_id, "assistant")
        IN  IF ~ValidContent(content)
            THEN /\ ChatReply("send_message", sp, auth, content, 0, 0, 0, 422, <<>>, FALSE, FALSE)
                 /\ UNCHANGED <<chat_sessions, chat_messages, retrievalVars, retryVars, pipelineVars, analysisVars, memoryVars>>
            ELSE IF ~IsUuid(sp)
            THEN /\ ChatReply("send_message", sp, auth, content, 0, 0, 0, 400, <<>>, FALSE, FALSE)
                 /\ UNCHANGED <<chat_sessions, chat_messages, retrievalVars, retryVars, pipelineVars, analysisVars, memoryVars>>
            ELSE IF user_id = "none"
            THEN /\ ChatReply("send_message", sp, auth, content, 0, 0, 0, 401, <<>>, FALSE, FALSE)
                 /\ UNCHANGED <<chat_sessions, chat_messages, retrievalVars, retryVars, pipelineVars, analysisVars, memoryVars>>
            ELSE /\ Len(chat_messages) + 2 <= MaxMessages
                 /\ IF GetOrCreateSucceeds(sp, user_id)
                    THEN /\ chat_messages' = answered
                         /\ chat_sessions' = SessionsAfterGetOrCreate(sp, user_id)
                         /\ ChatReply("send_message", sp, auth, content, 0, 0, 0, 200,
                                      <<answered[Len(answered)].sequence_number>>, TRUE, TRUE)
                    ELSE /\ chat_messages' = saved
                         /\ UNCHANGED chat_sessions
                         /\ ChatReply("send_message", sp, auth, content, 0, 0, 0, 500, <<>>,
                                      TRUE, TRUE)
                 /\ UNCHANGED <<retrievalVars, retryVars, pipelineVars, analysisVars, memoryVars>>

(* GET /spaces/{space_id}/session *)
GetChatSession ==
    \E sp \in SpacePaths, auth \in AuthHeaders :
        LET user_id == ExtractUserId(auth)
        IN  IF ~IsUuid(sp) \/ user_id = "none"
            THEN /\ ChatReply("get_session", sp, auth, "none", 0, 0, 0,
                              IF ~IsUuid(sp) THEN 400 ELSE 401, <<>>, FALSE, FALSE)
                 /\ UNCHANGED <<chat_sessions, chat_messages, retrievalVars, retryVars, pipelineVars, analysisVars, memoryVars>>
            ELSE /\ IF GetOrCreateSucceeds(sp, user_id)
                    THEN /\ chat_sessions' = SessionsAfterGetOrCreate(sp, user_id)
                         /\ ChatReply("get_session", sp, auth, "none", 0, 0, 0, 200,
                                      <<chat_sessions'[sp].memory_length>>, FALSE, FALSE)
                    ELSE /\ UNCHANGED chat_sessions
                         /\ ChatReply("get_session", sp, auth, "none", 0, 0, 0, 500, <<>>,
                                      FALSE, FALSE)
                 /\ UNCHANGED <<chat_messages, retrievalVars, retryVars, pipelineVars, analysisVars, memoryVars>>

(* update_session_memory_length: the ValueError test on max_memory_length *)
ServiceAcceptsMemoryLength(memory_length) ==
    ~(memory_length < 1 \/ memory_length > MaxMemoryMessages)

(* PUT /spaces/{space_id}/session/memory *)
UpdateMemoryLength ==
    \E sp \in SpacePaths, auth \in AuthHeaders, memory_length \in MemoryLengths :
        LET user_id == ExtractUserId(auth)
            early == IF ~ValidMemoryConfig(memory_length) THEN 422
                     ELSE IF ~IsUuid(sp) THEN 400
                     ELSE IF user_id = "none" THEN 401
                     ELSE IF ~ServiceAcceptsMemoryLength(memory_length) THEN 400
                     ELSE 0
        IN  IF early # 0
            THEN /\ ChatReply("update_memory", sp, auth, "none", 0, 0, memory_length, early,
                              <<>>, FALSE, FALSE)
                 /\ UNCHANGED <<chat_sessions, chat_messages, retrievalVars, retryVars, pipelineVars, analysisVars, memoryVars>>
            ELSE /\ IF GetOrCreateSucceeds(sp, user_id)
                    THEN /\ chat_sessions' =
                                [chat_sessions EXCEPT ![sp] =
                                    [user_id |-> user_id, memory_length |-> memory_length]]
                         /\ ChatReply("update_memory", sp, auth, "none", 0, 0, memory_length,
                                      200, <<chat_sessions'[sp].memory_length>>, FALSE, FALSE)
                    ELSE /\ UNCHANGED chat_sessions
                         /\ ChatReply("update_memory", sp, auth, "none", 0, 0, memory_length,
                                      500, <<>>, FALSE, FALSE)
                 /\ UNCHANGED <<chat_messages, retrievalVars, retryVars, pipelineVars, analysisVars, memoryVars>>

InitChat == RetrievalOff /\ ChatInit /\ RetryOff /\ PipelineOff /\ AnalysisOff /\ MemoryOff

NextChat == GetMessages \/ SendMessage \/ GetChatSession \/ UpdateMemoryLength

SpecChat == InitChat /\ [][NextChat]_vars

----------------------------------------------------------------------------
(* RetryMixin.retry_async: one step per attempt of the loop *)

(* max_retries = max_retries or settings.max_retries *)
EffectiveMaxRetries(arg) == IF arg = None \/ arg = 0 THEN SettingsMaxRetries ELSE arg

(* What awaiting func can do in one attempt; asyncio.wait_for adds the     *)
(* TimeoutError when a timeout is given.                                   *)
AttemptOutcomes(timeout) ==
    IF timeout THEN {"ok", "TimeoutError", "RuntimeError"} ELSE {"ok", "RuntimeError"}

(* retry_async is called: arguments bound, loop not yet entered *)
RetryAsync ==
    /\ retry.pc = "idle"
    /\ \E arg \in {None} \cup (0..MaxRetriesArg), timeout \in BOOLEAN :
        retry' = [RetryIdle EXCEPT !.pc = "loop", !.arg = arg, !.timeout = timeout,
                                   !.max_retries = EffectiveMaxRetries(arg)]
    /\ UNCHANGED <<retrievalVars, chatVars, pipelineVars, analysisVars, memoryVars>>

(* One iteration of for attempt in range(max_retries + 1): func is         *)
(* awaited; its result is returned, or its exception is kept and the loop  *)
(* sleeps and goes on, or ends and the last exception is raised.           *)
RetryAttempt ==
    /\ retry.pc = "loop"
    /\ \E outcome \in AttemptOutcomes(retry.timeout) :
        retry' =
            IF outcome = "ok"
            THEN [retry EXCEPT !.pc = "returned", !.result = "value",
                               !.outcomes = Append(@, outcome)]
            ELSE IF retry.attempt < retry.max_retries
            THEN [retry EXCEPT !.attempt = @ + 1, !.last_exception = outcome,
                               !.outcomes = Append(@, outcome)]
            ELSE [retry EXCEPT !.pc = "raised", !.last_exception = outcome,
                               !.outcomes = Append(@, outcome)]
    /\ UNCHANGED <<retrievalVars, chatVars, pipelineVars, analysisVars, memoryVars>>

(* The caller has the result or the exception; the next call starts anew *)
RetryDone ==
    /\ retry.pc \in {"returned", "raised"}
    /\ retry' = RetryIdle
    /\ UNCHANGED <<retrievalVars, chatVars, pipelineVars, analysisVars, memoryVars>>

InitRetry == RetrievalOff /\ ChatInit /\ RetryOff /\ PipelineOff /\ AnalysisOff /\ MemoryOff

NextRetry == RetryAsync \/ RetryAttempt \/ RetryDone

SpecRetry == InitRetry /\ [][NextRetry]_vars

----------------------------------------------------------------------------
(* The analysis pipeline: _analyze_points_concurrently and the tasks it    *)
(* gathers.  Every await at which a task can be suspended ends a step.     *)

PointIds == 1..NumPoints

ContextEmbeddingFailed == "context unavailable: embedding error"
ContextTimeout == "context unavailable: retrieval timeout"
ContextError == "context unavailable: retrieval error"
ContextRules == "retrieved rules"

(* The result of an embedding task: the point whose content was encoded,   *)
(* and "ok" for a vector or the name of the exception gather returned      *)
NoEmbedding == [point |-> 0, result |-> "pending"]

NewPoint ==
    [pc |-> "emb_wait", retrieval |-> "none", context |-> "none", attempt |-> 0,
     failed |-> 0, llm_calls |-> 0, analysis |-> "none", embedding |-> NoEmbedding]

(* Mutant of Acquire: the semaphore lets a task in without a free permit *)
AcquireNoWait(name) == sem' = [sem EXCEPT ![name] = @ - 1]

(* async with semaphore, on entry: wait for a free permit and take it *)
Acquire(name) ==
    /\ sem[name] > 0
    /\ sem' = [sem EXCEPT ![name] = @ - 1]

(* async with semaphore, on exit (return or exception): give the permit back *)
Release(name) == sem' = [sem EXCEPT ![name] = @ + 1]

(* with_embedding_limit: the embedding task of point i gets a permit and   *)
(* starts wait_for(_generate_embedding(...), embedding_timeout)            *)
EmbeddingEnter(i) ==
    /\ i \in DOMAIN points
    /\ stage = "embedding"
    /\ points[i].pc = "emb_wait"
    /\ Acquire("embedding")
    /\ points' = [points EXCEPT ![i].pc = "emb_run"]
    /\ UNCHANGED <<limits, analyzed_points, stage, embeddings, retrievalVars, chatVars, retryVars, analysisVars, memoryVars>>

(* The embedding of point i returns, raises or times out; gather keeps the *)
(* value or the exception at position i.                                   *)
EmbeddingLeave(i) ==
    /\ i \in DOMAIN points
    /\ points[i].pc = "emb_run"
    /\ \E outcome \in {"ok", "TimeoutError", "RuntimeError"} :
        embeddings' = [embeddings EXCEPT ![i] = [point |-> i, result |-> outcome]]
    /\ Release("embedding")
    /\ points' = [points EXCEPT ![i].pc = "emb_done"]
    /\ UNCHANGED <<limits, analyzed_points, stage, retrievalVars, chatVars, retryVars, analysisVars, memoryVars>>

(* gather over the embedding tasks has returned; the analysis tasks are created *)
StartAnalysis ==
    /\ stage = "embedding"
    /\ \A i \in DOMAIN points : points[i].pc = "emb_done"
    /\ stage' = "analysis"
    /\ points' = [i \in DOMAIN points |-> [points[i] EXCEPT !.pc = "ana_wait"]]
    /\ UNCHANGED <<limits, analyzed_points, sem, embeddings, retrievalVars, chatVars, retryVars, analysisVars, memoryVars>>

(* with_global_limit: _analyze_single_point of point i starts.  With a     *)
(* failed embedding the context is the placeholder and the LLM routine is  *)
(* entered; otherwise the retrieval call is awaited under wait_for.        *)
AnalysisEnter(i) ==
    /\ i \in DOMAIN points
    /\ stage = "analysis"
    /\ points[i].pc = "ana_wait"
    /\ Acquire("global")
    /\ points' = IF embeddings[i].result # "ok"
                 THEN [points EXCEPT ![i].pc = "llm", ![i].embedding = embeddings[i],
                                     ![i].context = ContextEmbeddingFailed]
                 ELSE [points EXCEPT ![i].pc = "retrieval", ![i].embedding = embeddings[i]]
    /\ UNCHANGED <<limits, analyzed_points, stage, embeddings, retrievalVars, chatVars, retryVars, analysisVars, memoryVars>>

(* The context of a retrieval outcome: the rules, the placeholder that     *)
(* _get_context_from_retrieval_service returns for an exception, or the    *)
(* placeholder of the TimeoutError handler.                                *)
ContextOf(outcome) ==
    IF outcome = "ok" THEN ContextRules
    ELSE IF outcome = "TimeoutError" THEN ContextTimeout
    ELSE ContextError

(* wait_for(_get_context_from_retrieval_service(...)) is over *)
RetrievalLeave(i) ==
    /\ i \in DOMAIN points
    /\ points[i].pc = "retrieval"
    /\ \E outcome \in {"ok", "TimeoutError", "RuntimeError"} :
        points' = [points EXCEPT ![i].pc = "llm", ![i].retrieval = outcome,
                                 ![i].context = ContextOf(outcome)]
    /\ UNCHANGED <<limits, analyzed_points, sem, stage, embeddings, retrievalVars, chatVars, retryVars, analysisVars, memoryVars>>

(* Mutant of LlmAttempt: the exception of the last attempt is raised to    *)
(* the caller instead of being replaced by the default analysis            *)
LlmAttemptRaisesLast(i) ==
    /\ i \in DOMAIN points
    /\ points[i].pc = "llm"
    /\ IF points[i].attempt < (SettingsMaxRetries + 1) - 1
       THEN /\ points' = [points EXCEPT ![i].attempt = @ + 1, ![i].failed = @ + 1]
            /\ UNCHANGED sem
       ELSE /\ points' = [points EXCEPT ![i].pc = "done", ![i].failed = @ + 1,
                                        ![i].analysis = "TypeError"]
            /\ Release("global")
    /\ UNCHANGED <<limits, analyzed_points, stage, embeddings, retrievalVars, chatVars, retryVars, analysisVars, memoryVars>>

(* One attempt of _call_llm_with_parsing_retry.  The argument of           *)
(* with_llm_limit is asyncio.wait_for(_call_llm(...), _call_llm(...),      *)
(* timeout=...): the call raises TypeError (two values for timeout) before *)
(* with_llm_limit is entered and before either _call_llm coroutine is      *)
(* awaited.  The handler for Exception sleeps and retries, and after the   *)
(* last attempt returns the default analysis; _analyze_single_point then   *)
(* returns and the permit of with_global_limit is given back.              *)
LlmAttempt(i) ==
    /\ i \in DOMAIN points
    /\ points[i].pc = "llm"
    /\ IF points[i].attempt < (SettingsMaxRetries + 1) - 1
       THEN /\ points' = [points EXCEPT ![i].attempt = @ + 1, ![i].failed = @ + 1]
            /\ UNCHANGED sem
       ELSE /\ points' = [points EXCEPT ![i].pc = "done", ![i].failed = @ + 1,
                                        ![i].analysis = "default"]
            /\ Release("global")
    /\ UNCHANGED <<limits, analyzed_points, stage, embeddings, retrievalVars, chatVars, retryVars, analysisVars, memoryVars>>

(* The DocumentPointAnalysis of point i: the point and its analysis list.  *)
(* _create_fallback_analysis gives the same shape with the default list.   *)
DocumentPointAnalysis(i) == [point_number |-> i, analysis_points |-> points[i].analysis]

(* Mutant of FinishAnalysis: the results are listed last point first *)
FinishAnalysisReversed ==
    /\ stage = "analysis"
    /\ \A i \in DOMAIN points : points[i].pc = "done"
    /\ stage' = "finished"
    /\ analyzed_points' =
            [i \in DOMAIN points |-> DocumentPointAnalysis(Len(points) + 1 - i)]
    /\ UNCHANGED <<limits, sem, embeddings, points, retrievalVars, chatVars, retryVars, analysisVars, memoryVars>>

(* gather over the analysis tasks has returned its results in task order;  *)
(* step 3 appends, position by position, the result or, for an exception,  *)
(* the fallback analysis of the point at that position.                    *)
FinishAnalysis ==
    /\ stage = "analysis"
    /\ \A i \in DOMAIN points : points[i].pc = "done"
    /\ stage' = "finished"
    /\ analyzed_points' = [i \in DOMAIN points |-> DocumentPointAnalysis(i)]
    /\ UNCHANGED <<limits, sem, embeddings, points, retrievalVars, chatVars, retryVars, analysisVars, memoryVars>>

InitPipeline ==
    /\ RetrievalOff /\ ChatInit /\ RetryOff /\ AnalysisOff /\ MemoryOff
    /\ analyzed_points = <<>>
    /\ limits \in [{"global", "llm", "embedding"} -> 1..MaxPermits]
    /\ sem = limits
    /\ stage = "embedding"
    /\ \E n \in 1..NumPoints :
        /\ embeddings = [i \in 1..n |-> NoEmbedding]
        /\ points = [i \in 1..n |-> NewPoint]

NextPipeline ==
    \/ \E i \in PointIds :
        \/ EmbeddingEnter(i)
        \/ EmbeddingLeave(i)
        \/ AnalysisEnter(i)
        \/ RetrievalLeave(i)
        \/ LlmAttempt(i)
    \/ StartAnalysis
    \/ FinishAnalysis

SpecPipeline == InitPipeline /\ [][NextPipeline]_vars

----------------------------------------------------------------------------
(* Sorting the analysis points of a document point by risk: analyze_document *)
(* replaces each analysis_points list by _sort_analysis_points_by_risk of it. *)

(* The words _extract_risk_level looks for in risk_text.lower(); the three *)
(* Russian words are written in Latin letters here.                        *)
RussianHigh == "vysokiy"
RussianMedium == "sredniy"
RussianLow == "nizkiy"

(* Risk texts, each with the set of the searched words it contains: the    *)
(* empty string, a text with none of the words, and texts naming a level   *)
RiskTexts ==
    {[text |-> "", words |-> {}],
     [text |-> "unclear", words |-> {}],
     [text |-> "vysokiy risk", words |-> {RussianHigh}],
     [text |-> "medium risk", words |-> {"medium"}],
     [text |-> "nizkiy risk", words |-> {RussianLow}]}

(* _extract_risk_level *)
ExtractRiskLevel(risk_text) ==
    IF risk_text.text = "" THEN 0
    ELSE IF RussianHigh \in risk_text.words THEN 3
    ELSE IF RussianMedium \in risk_text.words THEN 2
    ELSE IF RussianLow \in risk_text.words THEN 1
    ELSE IF "high" \in risk_text.words THEN 3
    ELSE IF "medium" \in risk_text.words \/ "moderate" \in risk_text.words THEN 2
    ELSE IF "low" \in risk_text.words THEN 1
    ELSE 2

(* _sort_analysis_points_by_risk: sorted(..., key = level, reverse = True) *)
SortAnalysisPointsByRisk(analysis_points) ==
    SortedReverse(analysis_points,
                  LAMBDA a, b : ExtractRiskLevel(a.risk) > ExtractRiskLevel(b.risk))

(* The analysis point lists of one document point; cause tells the points  *)
(* of a list apart and is their position in it                             *)
AnalysisPointLists ==
    UNION {{[p \in 1..n |-> [cause |-> p, risk |-> f[p]]] : f \in [1..n -> RiskTexts]} :
                n \in 0..MaxAnalysisPoints}

(* analyze_document sorts the list of one analyzed point *)
SortPoint ==
    /\ sorting.pc = "idle"
    /\ \E analysis_points \in AnalysisPointLists :
        sorting' = [pc |-> "done", input |-> analysis_points,
                    output |-> SortAnalysisPointsByRisk(analysis_points)]
    /\ UNCHANGED <<validation, retrievalVars, chatVars, retryVars, pipelineVars, memoryVars>>

(* The response has been built *)
SortReturn ==
    /\ sorting.pc = "done"
    /\ sorting' = SortingIdle
    /\ UNCHANGED <<validation, retrievalVars, chatVars, retryVars, pipelineVars, memoryVars>>

InitSort == RetrievalOff /\ RestOff

NextSort == SortPoint \/ SortReturn

SpecSort == InitSort /\ [][NextSort]_vars

----------------------------------------------------------------------------
(* _validate_analysis_with_llm: one validation call per analysis point.    *)
(* The call of each point is awaited before the next point is looked at.   *)

(* What the validation call of one point ends in: a response whose JSON    *)
(* object says is_valid true or false, a response without usable verdict   *)
(* (empty, no JSON object, undecodable JSON, no is_valid key), or an       *)
(* exception of the call (the TimeoutError of wait_for, or any other)      *)
ValidationOutcomes ==
    {"is_valid_true", "is_valid_false", "empty", "no_json", "json_error", "no_is_valid",
     "TimeoutError", "Exception"}

ValidationExceptions == {"TimeoutError", "Exception"}

(* _parse_validation_response: the is_valid entry of the dict it returns *)
ParseValidationResponse(validation_response) ==
    IF validation_response = "is_valid_false" THEN FALSE ELSE TRUE

(* Mutant of Keeps: a point whose validation call raised is dropped *)
KeepsUnlessRaised(outcome) ==
    IF outcome \in ValidationExceptions THEN FALSE ELSE ParseValidationResponse(outcome)

(* Whether the loop body appends the point: validation_result.get(         *)
(* "is_valid", False) after a response, and always in the except handler   *)
Keeps(outcome) ==
    IF outcome \in ValidationExceptions THEN TRUE ELSE ParseValidationResponse(outcome)

(* The analysis points handed over: cause tells them apart *)
ValidationInputs == {[p \in 1..n |-> [cause |-> p]] : n \in 0..MaxAnalysisPoints}

(* The call starts; an empty list is returned at once *)
ValidateStart ==
    /\ validation.pc = "idle"
    /\ \E analysis_points \in ValidationInputs :
        validation' = [pc |-> IF analysis_points = <<>> THEN "done" ELSE "loop",
                       input |-> analysis_points, outcomes |-> <<>>, validated |-> <<>>]
    /\ UNCHANGED <<sorting, retrievalVars, chatVars, retryVars, pipelineVars, memoryVars>>

(* One iteration of the loop; after the last one validated_points is       *)
(* returned                                                                *)
ValidatePoint ==
    /\ validation.pc = "loop"
    /\ \E outcome \in ValidationOutcomes :
        LET i == Len(validation.outcomes) + 1
            analysis_point == validation.input[i]
        IN  validation' =
                [validation EXCEPT
                    !.outcomes = Append(@, outcome),
                    !.validated = IF Keeps(outcome) THEN Append(@, analysis_point) ELSE @,
                    !.pc = IF i = Len(validation.input) THEN "done" ELSE "loop"]
    /\ UNCHANGED <<sorting, retrievalVars, chatVars, retryVars, pipelineVars, memoryVars>>

(* The caller has the result *)
ValidateReturn ==
    /\ validation.pc = "done"
    /\ validation' = ValidationIdle
    /\ UNCHANGED <<sorting, retrievalVars, chatVars, retryVars, pipelineVars, memoryVars>>

InitValidate == RetrievalOff /\ RestOff

NextValidate == ValidateStart \/ ValidatePoint \/ ValidateReturn

SpecValidate == InitValidate /\ [][NextValidate]_vars

----------------------------------------------------------------------------
(* save_message under concurrent requests.  Each request has a database    *)
(* session of its own; the SELECT of the next sequence number and the      *)
(* commit of the INSERT are separate awaits, so other requests run between *)
(* them.  A SELECT sees the committed rows.                                *)

WriterIds == 1..NumWriters

Users == {"u1", "u2"}

IdleWriter == [pc |-> "idle", user_id |-> "none", sequence_number |-> 0]

(* The store is either the one Base.metadata.create_all makes at startup   *)
(* (no constraint on sequence_number) or the one scripts/init_db.py makes  *)
(* (UNIQUE (space_id, user_id, sequence_number)).                          *)
InitSave ==
    /\ RetrievalOff /\ ChatInit /\ RetryOff /\ PipelineOff /\ AnalysisOff
    /\ unique_seq \in BOOLEAN
    /\ writers = [w \in WriterIds |-> IdleWriter]
    /\ context = NoContext
    /\ history = <<>>

(* The request of writer w enters save_message and reads                   *)
(* coalesce(max(sequence_number), 0) + 1 of its (space_id, user_id)        *)
SaveSelect(w) ==
    /\ writers[w].pc = "idle"
    /\ Len(chat_messages)
            + Cardinality({v \in WriterIds : writers[v].pc = "selected"}) < MaxMessages
    /\ \E sp \in SpaceIds, user_id \in Users :
        writers' = [writers EXCEPT ![w] =
                        [pc |-> "selected", user_id |-> user_id,
                         sequence_number |-> NextSequenceNumber(chat_messages, sp, user_id)]]
    /\ UNCHANGED <<chat_messages, chat_sessions, chat_reply, unique_seq, context, history,
                   retrievalVars, retryVars, pipelineVars, analysisVars>>

(* Whether the unique constraint rejects the row the writer inserts *)
SequenceTaken(w) ==
    \E i \in DOMAIN chat_messages :
        /\ chat_messages[i].user_id = writers[w].user_id
        /\ chat_messages[i].sequence_number = writers[w].sequence_number

(* db.add(message); await db.commit(): the row is stored with the sequence *)
(* number read before, or the commit raises on the unique constraint and   *)
(* save_message rolls back and re-raises.                                  *)
SaveCommit(w) ==
    /\ writers[w].pc = "selected"
    /\ IF unique_seq /\ SequenceTaken(w)
       THEN /\ writers' = [writers EXCEPT ![w].pc = "failed"]
            /\ UNCHANGED chat_messages
       ELSE /\ \E sp \in SpaceIds :
                chat_messages' =
                    Append(chat_messages,
                           [space_id |-> sp, user_id |-> writers[w].user_id, type |-> "user",
                            sequence_number |-> writers[w].sequence_number])
            /\ writers' = [writers EXCEPT ![w].pc = "done"]
    /\ UNCHANGED <<chat_sessions, chat_reply, unique_seq, context, history,
                   retrievalVars, retryVars, pipelineVars, analysisVars>>

(* save_message has returned or raised; the writer serves its next request *)
SaveReturn(w) ==
    /\ writers[w].pc \in {"done", "failed"}
    /\ writers' = [writers EXCEPT ![w] = IdleWriter]
    /\ UNCHANGED <<chat_messages, chat_sessions, chat_reply, unique_seq, context, history,
                   retrievalVars, retryVars, pipelineVars, analysisVars>>

NextSave == \E w \in WriterIds : SaveSelect(w) \/ SaveCommit(w) \/ SaveReturn(w)

SpecSave == InitSave /\ [][NextSave]_vars

----------------------------------------------------------------------------
(* The conversation context of a sent message: send_message saves the user *)
(* message, reads the context with get_conversation_context, hands it to   *)
(* generate_response, which formats it into the prompt, and saves the      *)
(* answer.  One request at a time.                                         *)

(* The memory lengths set in this part, all accepted by the service *)
ContextMemoryLengths ==
    {SchemaMinMemory, DefaultMemoryMessages, DefaultMemoryMessages + 1, MaxMemoryMessages}

Reverse(s) == [p \in DOMAIN s |-> s[Len(s) + 1 - p]]

(* Mutant of ConversationContext: the oldest messages are taken *)
ConversationContextOldest(msgs, space_id, user_id, limit) ==
    LET own == SelectSeq(msgs, LAMBDA m : m.space_id = space_id /\ m.user_id = user_id)
        oldest == Reverse(SortedReverse(own, LAMBDA a, b : a.sequence_number > b.sequence_number))
    IN  Take(oldest, limit)

(* get_conversation_context: the non-deleted messages of the pair (nothing *)
(* deletes a message) ordered by sequence number descending, the first     *)
(* limit of them, reversed                                                 *)
ConversationContext(msgs, space_id, user_id, limit) ==
    LET own == SelectSeq(msgs, LAMBDA m : m.space_id = space_id /\ m.user_id = user_id)
        newest == SortedReverse(own, LAMBDA a, b : a.sequence_number > b.sequence_number)
    IN  Reverse(Take(newest, limit))

(* _format_conversation_history: the lines of messages[-10:] *)
FormatConversationHistory(messages) ==
    SubSeq(messages, Max2(1, Len(messages) - HistoryWindow + 1), Len(messages))

SequenceNumbers(messages) == [p \in DOMAIN messages |-> messages[p].sequence_number]

(* POST /spaces/{space_id}/messages of user u1, answered 200, with an LLM  *)
(* client configured so that the prompt is built                           *)
ContextSend ==
    \E sp \in SpaceIds :
        LET user_id == "u1"
            saved == SaveMessage(chat_messages, sp, user_id, "user")
            sessions == SessionsAfterGetOrCreate(sp, user_id)
            limit == sessions[sp].memory_length
            conversation_history == ConversationContext(saved, sp, user_id, limit)
        IN  /\ Len(chat_messages) + 2 <= MaxStored
            /\ GetOrCreateSucceeds(sp, user_id)
            /\ chat_sessions' = sessions
            /\ context' =
                    [limit |-> limit,
                     available |-> {saved[i].sequence_number : i \in
                                        {j \in DOMAIN saved : saved[j].space_id = sp
                                                              /\ saved[j].user_id = user_id}},
                     messages |-> SequenceNumbers(conversation_history)]
            /\ history' = SequenceNumbers(FormatConversationHistory(conversation_history))
            /\ chat_messages' = SaveMessage(saved, sp, user_id, "assistant")
    /\ UNCHANGED <<chat_reply, writers, unique_seq, retrievalVars, retryVars, pipelineVars,
                   analysisVars>>

(* A message of another user in the same space: send_message commits the   *)
(* user message before anything else (the request then fails on the        *)
(* session of the space, which belongs to u1).                             *)
ContextOtherUser ==
    /\ \E sp \in SpaceIds :
        /\ chat_sessions[sp].user_id = "u1"
        /\ \A i \in DOMAIN chat_messages : chat_messages[i].user_id # "u2"
        /\ Len(chat_messages) + 1 <= MaxStored
        /\ chat_messages' = SaveMessage(chat_messages, sp, "u2", "user")
    /\ UNCHANGED <<chat_sessions, chat_reply, memoryVars, retrievalVars, retryVars,
                   pipelineVars, analysisVars>>

(* PUT /spaces/{space_id}/session/memory of user u1, answered 200 *)
ContextSetMemory ==
    /\ \E sp \in SpaceIds, memory_length \in ContextMemoryLengths :
        /\ ServiceAcceptsMemoryLength(memory_length)
        /\ GetOrCreateSucceeds(sp, "u1")
        /\ chat_sessions' = [chat_sessions EXCEPT ![sp] =
                                [user_id |-> "u1", memory_length |-> memory_length]]
    /\ UNCHANGED <<chat_messages, chat_reply, memoryVars, retrievalVars, retryVars,
                   pipelineVars, analysisVars>>

InitContext == RetrievalOff /\ RestOff

NextContext == ContextSend \/ ContextOtherUser \/ ContextSetMemory

SpecContext == InitContext /\ [][NextContext]_vars

----------------------------------------------------------------------------
(* Properties *)

Answered(ep) == phase = "done" /\ status = 200 /\ endpoint = ep

AnsweredAny == phase = "done" /\ status = 200

RuleOfRow(idx) == chunks[rows[idx + 1]].rule_id

ResultChunkIds == [p \in DOMAIN results |-> results[p].chunk_id]

ResultRuleIds == [p \in DOMAIN results |-> results[p].rule_id]

Distinct(s) == \A p, q \in DOMAIN s : p # q => s[p] # s[q]

(* All row indices in fused order: descending score, the sort of the code *)
FusedOrder ==
    SortedReverse([i \in 1..Len(rows) |-> i - 1],
                  LAMBDA a, b : FracGt(rrf_scores[a], rrf_scores[b]))

FracAdd(a, b) == Fraction(a.num * b.den + b.num * a.den, a.den * b.den)

(* The term a candidate list gives idx under reciprocal rank fusion with   *)
(* 1-based ranks: 1/(c + rank) when the list holds idx, nothing otherwise. *)
ListTerm(list, idx) ==
    IF idx \in Range(list)
    THEN Fraction(1, RRF_C + IndexOf(list, idx) + 1)
    ELSE Fraction(0, 1)

(* C1: the fused score of every fragment is the sum of 1/(c + rank), rank  *)
(* 1-based, over exactly the candidate lists that contain it; an absent    *)
(* list adds no term.                                                      *)
C1_FusedScoreIsRRF ==
    AnsweredAny =>
        \A idx \in DOMAIN rrf_scores :
            FracEq(rrf_scores[idx],
                   FracAdd(ListTerm(vector_ranked, idx), ListTerm(bm25_ranked, idx)))

(* C2: the fused list is in descending order of fused score, and equal     *)
(* scores appear in ascending order of fragment id.                        *)
C2_DescendingWithIdTieBreak ==
    Answered("chunks") =>
        \A p, q \in DOMAIN results :
            p < q =>
                \/ FracGt(results[p].similarity_score, results[q].similarity_score)
                \/ /\ FracEq(results[p].similarity_score, results[q].similarity_score)
                   /\ results[p].chunk_id < results[q].chunk_id

(* C3: with fragments A = 0, B = 1, C = 2, vector list [A, B, C] and       *)
(* lexical list [B, C, A], the fragments come back in the order B, A, C    *)
(* (cut to the k of the request).                                          *)
C3_ScenarioOrder ==
    ( /\ Answered("chunks")
      /\ Len(rows) = 3
      /\ vector_results = <<0, 1, 2>>
      /\ [p \in DOMAIN bm25_ranked |-> rows[bm25_ranked[p] + 1]] = <<1, 2, 0>> )
    => ResultChunkIds = Take(<<1, 0, 2>>, request.k)

(* C4: the candidate list is requested with size max(100, 10 * k_final).   *)
C4_CandidateSize ==
    AnsweredAny => vector_k = Max2(100, 10 * request.k)

(* C5: fragment-level retrieval returns exactly the first min(k, n)        *)
(* entries of the full fused ordering, in that order, none twice.          *)
C5_ChunkResultsArePrefix ==
    Answered("chunks") =>
        LET m == Min2(request.k, Len(rows))
        IN  /\ Len(results) = m
            /\ \A p \in 1..m : results[p].chunk_id = rows[FusedOrder[p] + 1]
            /\ Distinct(ResultChunkIds)
            /\ total_results = m

C5_Witness ==
    /\ Answered("chunks")
    /\ Len(rows) > 2 * request.k
    /\ Len(results) = request.k
    /\ \E p, q \in DOMAIN vector_ranked : vector_ranked[p] # vector_ranked[q]

(* C6: rule-level retrieval returns no rule twice, at most k results, and  *)
(* total_results is the number of results.                                 *)
C6_RuleResultsUnique ==
    Answered("rules") =>
        /\ Distinct(ResultRuleIds)
        /\ Len(results) <= request.k
        /\ total_results = Len(results)

C6_Witness ==
    /\ Answered("rules")
    /\ Len(rows) = 3
    /\ Len(results) = 2
    /\ RuleOfRow(FusedOrder[1]) = RuleOfRow(FusedOrder[2])
    /\ results[2].chunk_id = rows[FusedOrder[3] + 1]

(* C7: every returned rule carries the score of its best fragment, the     *)
(* rules are in descending order of that score, and no omitted rule has a  *)
(* fragment that scores higher than a returned rule.                       *)
C7_RuleBestFragment ==
    Answered("rules") =>
        /\ \A p \in DOMAIN results :
            /\ results[p].similarity_score = rrf_scores[IndexOf(rows, results[p].chunk_id)]
            /\ \A idx \in DOMAIN rrf_scores :
                RuleOfRow(idx) = results[p].rule_id
                    => ~FracGt(rrf_scores[idx], results[p].similarity_score)
        /\ \A p, q \in DOMAIN results :
            p < q => ~FracGt(results[q].similarity_score, results[p].similarity_score)
        /\ \A idx \in DOMAIN rrf_scores :
            RuleOfRow(idx) \notin Range(ResultRuleIds)
                => \A p \in DOMAIN results :
                        ~FracGt(rrf_scores[idx], results[p].similarity_score)

C7_Witness ==
    /\ Answered("rules")
    /\ \E idx \in DOMAIN rrf_scores : RuleOfRow(idx) \notin Range(ResultRuleIds)
    /\ \E p \in DOMAIN results, idx \in DOMAIN rrf_scores :
        /\ RuleOfRow(idx) = results[p].rule_id
        /\ FracGt(results[p].similarity_score, rrf_scores[idx])

(* C8: the same request sent again to the unchanged corpus is answered     *)
(* with the same results in the same order.                                *)
C8_RepeatGivesSameResults ==
    [][( /\ phase = "done" /\ phase' = "done"
         /\ status = 200 /\ status' = 200
         /\ endpoint' = endpoint /\ request' = request /\ chunks' = chunks )
       => results' = results]_vars

(* C9: a response is returned only when every id of the vector list was    *)
(* resolved and entered the fusion together with the lexical list.         *)
C9_BothListsFused ==
    AnsweredAny =>
        /\ Len(bm25_ranked) = Len(rows)
        /\ Len(vector_ranked) = Len(vector_results)

(* C10: when the query encoder raises, the request fails with an error and *)
(* carries no results.                                                     *)
C10_EncoderFailureFails ==
    (phase = "done" /\ encoder = "raised") =>
        /\ status = 500
        /\ results = <<>>
        /\ total_results = 0

C10_Witness ==
    /\ phase = "done"
    /\ encoder = "raised"
    /\ status = 500
    /\ Cardinality(EligibleIds) >= 2

(* C11: a query to a corpus that is empty, or whose fragments all have a   *)
(* null embedding, is answered successfully with results = [] and          *)
(* total_results = 0, whatever the k and the distance function (the query  *)
(* encoder having produced the embedding).                                 *)
C11_EmptyCorpusAnswersEmpty ==
    (phase = "done" /\ encoder = "ok" /\ EligibleIds = {}) =>
        /\ status = 200
        /\ results = <<>>
        /\ total_results = 0

C11_Witness ==
    /\ phase = "done"
    /\ encoder = "ok"
    /\ Cardinality(DOMAIN chunks) >= 2
    /\ \A id \in DOMAIN chunks : chunks[id].embedding = NULL
    /\ status = 200
    /\ results = <<>>

(* C12: every hybrid retrieval call, from a route or from the analysis     *)
(* pipeline, orders its vector candidates with the distance metric named   *)
(* in the distance_function field of its request.                          *)
C12_MetricIsTheRequested ==
    (phase = "done" /\ encoder = "ok") => metric = request.distance_function

NearerL2(a, b) == L2Squared(a, QueryEmbedding) < L2Squared(b, QueryEmbedding)

(* cosine similarity of a to the query above that of b (components >= 0) *)
NearerCosine(a, b) ==
    Dot(a, QueryEmbedding) * Dot(a, QueryEmbedding) * Dot(b, b)
        > Dot(b, QueryEmbedding) * Dot(b, QueryEmbedding) * Dot(a, a)

(* C13: the vector candidates come nearest first under the metric the      *)
(* generator was given: ascending distance for L2, descending similarity   *)
(* for cosine; no later candidate is closer to the query than an earlier.  *)
C13_VectorResultsNearestFirst ==
    (phase = "done" /\ encoder = "ok") =>
        \A p, q \in DOMAIN vector_results :
            p < q =>
                LET a == chunks[vector_results[p]].embedding
                    b == chunks[vector_results[q]].embedding
                IN  /\ metric = "l2" => ~NearerL2(b, a)
                    /\ metric = "cosine" => ~NearerCosine(b, a)

C13_Witness ==
    /\ phase = "done"
    /\ encoder = "ok"
    /\ metric = "l2"
    /\ Len(vector_results) = 3
    /\ NearerL2(chunks[vector_results[1]].embedding, chunks[vector_results[3]].embedding)
    /\ NearerCosine(chunks[vector_results[3]].embedding, chunks[vector_results[1]].embedding)

(* C14: a retrieval request with an empty or whitespace-only query, a k    *)
(* outside 1..20 or an unsupported distance_function is answered with a    *)
(* client error, and neither the encoder nor the retrieval engine is       *)
(* called for it.                                                          *)
C14_InvalidRequestRejected ==
    ( /\ phase = "done"
      /\ endpoint \in {"chunks", "rules"}
      /\ \/ query \in {"", " "}
         \/ request.k < 1
         \/ request.k > 20
         \/ request.distance_function \notin {"cosine", "l2", "inner_product"} )
    => /\ status >= 400 /\ status <= 499
       /\ encoder = "idle"
       /\ rows = <<>>
       /\ vector_k = 0
       /\ metric = "none"
       /\ results = <<>>

C14_Witness ==
    /\ phase = "done"
    /\ endpoint = "chunks"
    /\ query = " "
    /\ request.k = 1
    /\ request.distance_function = "l2"
    /\ status = 422
    /\ EligibleIds # {}

C17_MemoryLengthUpdate ==
    [][( /\ chat_reply'.route = "update_memory"
         /\ IsUuid(chat_reply'.space_id)
         /\ ExtractUserId(chat_reply'.authorization) # "none"
         /\ GetOrCreateSucceeds(chat_reply'.space_id,
                                ExtractUserId(chat_reply'.authorization)) )
       => IF chat_reply'.memory_length >= 1 /\ chat_reply'.memory_length <= 50
          THEN /\ chat_reply'.status = 200
               /\ chat_sessions'[chat_reply'.space_id].memory_length
                    = chat_reply'.memory_length
               /\ chat_reply'.body = <<chat_reply'.memory_length>>
          ELSE /\ chat_reply'.status >= 400 /\ chat_reply'.status <= 499
               /\ chat_sessions' = chat_sessions]_vars

(* C18: a get-messages or send-message request whose space id is not a     *)
(* UUID, or a get-messages request with offset < 0 or limit outside        *)
(* 1..100, sent without Authorization header, is answered 400 and neither  *)
(* reads nor writes a message.                                             *)
C18_BadChatRequestIs400 ==
    ( /\ chat_reply.authorization = "none"
      /\ \/ /\ chat_reply.route = "get_messages"
            /\ \/ ~IsUuid(chat_reply.space_id)
               \/ chat_reply.offset < 0
               \/ chat_reply.limit < 1
               \/ chat_reply.limit > 100
         \/ /\ chat_reply.route = "send_message"
            /\ chat_reply.content = "hi"
            /\ ~IsUuid(chat_reply.space_id) )
    => /\ chat_reply.status = 400
       /\ ~chat_reply.read
       /\ ~chat_reply.wrote

(* C19: retry_async called with max_retries = n, n >= 0, invokes func at   *)
(* most n + 1 times; it returns the result of the first attempt that       *)
(* succeeds, and when all n + 1 attempts raise it raises the exception of  *)
(* the last attempt.                                                       *)
C19_RetryAttempts ==
    (retry.pc # "idle" /\ retry.arg >= 0) =>
        LET n == retry.arg
            calls == Len(retry.outcomes)
        IN  /\ calls <= n + 1
            /\ \A p \in 1..(calls - 1) : retry.outcomes[p] # "ok"
            /\ retry.pc = "returned" =>
                    retry.outcomes[calls] = "ok" /\ retry.result = "value"
            /\ retry.pc = "raised" =>
                    /\ calls = n + 1
                    /\ retry.outcomes[calls] # "ok"
                    /\ retry.last_exception = retry.outcomes[calls]

InEmbedding == {i \in DOMAIN points : points[i].pc = "emb_run"}

InGlobal == {i \in DOMAIN points : points[i].pc \in {"retrieval", "llm"}}

AnalysisLists == {"validated", "empty", "default"}

C28_OneResultPerPointInOrder ==
    /\ \A i \in DOMAIN points :
            points[i].pc \in {"retrieval", "llm", "done"} => points[i].embedding.point = i
    /\ stage = "finished" =>
            /\ Len(analyzed_points) = Len(points)
            /\ \A i \in DOMAIN points :
                    /\ analyzed_points[i].point_number = i
                    /\ analyzed_points[i].analysis_points = points[i].analysis
                    /\ analyzed_points[i].analysis_points \in AnalysisLists

C28_Witness ==
    /\ stage = "finished"
    /\ Len(analyzed_points) = NumPoints
    /\ NumPoints >= 2
    /\ points[1].embedding.result = "ok"
    /\ points[2].embedding.result = "TimeoutError"


(* C23: the analysis points of a document point are ordered by             *)
(* non-increasing risk level, the level being 3 for high, 2 for medium, 1  *)
(* for low and 0 for an unknown risk text, and points of equal level keep  *)
(* their original relative order.                                          *)
LevelOfText(risk_text) ==
    IF risk_text.words \cap {RussianHigh, "high"} # {} THEN 3
    ELSE IF risk_text.words \cap {RussianMedium, "medium", "moderate"} # {} THEN 2
    ELSE IF risk_text.words \cap {RussianLow, "low"} # {} THEN 1
    ELSE 0

C23_SortedByRiskLevel ==
    sorting.pc = "done" =>
        /\ Len(sorting.output) = Len(sorting.input)
        /\ Range(sorting.output) = Range(sorting.input)
        /\ \A p, q \in DOMAIN sorting.output :
                p < q =>
                    /\ LevelOfText(sorting.output[p].risk) >= LevelOfText(sorting.output[q].risk)
                    /\ LevelOfText(sorting.output[p].risk) = LevelOfText(sorting.output[q].risk)
                           => sorting.output[p].cause < sorting.output[q].cause


(* C22: _validate_analysis_with_llm returns a subsequence of its input     *)
(* (same relative order, no new or altered points).  As stated, it holds   *)
(* exactly the points the validation call judged valid.                    *)
IsSubsequenceOfInput ==
    /\ Range(validation.validated) \subseteq Range(validation.input)
    /\ \A p, q \in DOMAIN validation.validated :
            p < q => validation.validated[p].cause < validation.validated[q].cause

C24_SequenceNumbersIncrease ==
    \A i, j \in DOMAIN chat_messages :
        (/\ i < j
         /\ chat_messages[i].space_id = chat_messages[j].space_id
         /\ chat_messages[i].user_id = chat_messages[j].user_id)
        => chat_messages[i].sequence_number < chat_messages[j].sequence_number

(* C25: every get_or_create_session call returns the one active session of *)
(* its (space_id, user_id), creating it if needed; no call fails.          *)
C25_GetOrCreateReturnsTheSession ==
    (/\ chat_reply.route = "get_session"
     /\ IsUuid(chat_reply.space_id)
     /\ ExtractUserId(chat_reply.authorization) # "none")
    => /\ chat_reply.status = 200
       /\ chat_sessions[chat_reply.space_id].user_id = ExtractUserId(chat_reply.authorization)


(* C26: get_conversation_context without a limit returns exactly the       *)
(* min(memory_length, n) messages of the pair with the highest sequence    *)
(* numbers, oldest first, n being the number of its non-deleted messages.  *)
C26_ContextIsTheMostRecent ==
    context # NoContext =>
        /\ context.limit \in SchemaMinMemory..MaxMemoryMessages
        /\ Len(context.messages) = Min2(context.limit, Cardinality(context.available))
        /\ Range(context.messages) \subseteq context.available
        /\ \A p, q \in DOMAIN context.messages :
                p < q => context.messages[p] < context.messages[q]
        /\ \A x \in context.available \ Range(context.messages) :
                \A p \in DOMAIN context.messages : x < context.messages[p]

C26_Witness ==
    /\ context.limit = DefaultMemoryMessages
    /\ Cardinality(context.available) = DefaultMemoryMessages + 1
    /\ Len(context.messages) = DefaultMemoryMessages
    /\ context.messages[1] = 2

(* C27: the conversation history placed in the prompt holds every message  *)
(* get_conversation_context returned for the request.                      *)
C27_HistoryHoldsTheContext ==
    context # NoContext =>
        /\ Len(history) = Len(context.messages)
        /\ Range(history) = Range(context.messages)


====
